---- MODULE Spec2Model ----
(***************************************************************************)
(* A model of jkmsigen.py: the script that turns a directory (or zip       *)
(* archive) of files into a WiX document and hands it to the WiX / wixl    *)
(* toolchain.                                                              *)
(*                                                                         *)
(* Strings are sequences of tokens.  Letters, '.', '/', '=' and '_' are    *)
(* one token each, so that upper(), split(), splitext() and '+' act on     *)
(* them as they do in Python; literals of the script that are only ever    *)
(* copied ('ProgramFilesFolder', 'Comp', ...) are one token.               *)
(* The document is the sequence wix of the elements in creation order;     *)
(* an element is a record of its tag, the index of its parent and its      *)
(* attributes.                                                             *)
(***************************************************************************)
EXTENDS Integers, Sequences, FiniteSets, TLC

VARIABLES argv, tree, args, wix, shortcutel, log, pc, stack, tmpdir,
          files, ran, platform, runs, prev

vars == <<argv, tree, args, wix, shortcutel, log, pc, stack, tmpdir,
          files, ran, platform, runs, prev>>

(***************************************************************************)
(* Bounds.                                                                 *)
(***************************************************************************)
\* the largest number of entries (files and directories) of a source tree
MaxEntries == 2
\* the deepest nesting of an entry below the source root
MaxDepth == 2

(***************************************************************************)
(* Strings.                                                                *)
(***************************************************************************)
\* Python's None, where a string may stand
None == <<"<None>">>

\* the names a directory entry can have; "a" and "A" are two entries on a
\* case-sensitive filesystem
NameSet == { <<"a">>, <<"A">>, <<"b", ".", "x">> }

\* str.upper() on one character
UpperChar(c) ==
    CASE c = "a" -> "A"
      [] c = "b" -> "B"
      [] c = "x" -> "X"
      [] OTHER -> c

\* str.upper()
Upper(s) == [i \in 1..Len(s) |-> UpperChar(s[i])]

\* s.rfind(c), 1-based, 0 when c does not occur
RFind(s, c) ==
    LET hits == {i \in 1..Len(s) : s[i] = c}
    IN  IF hits = {} THEN 0 ELSE CHOOSE i \in hits : \A j \in hits : j <= i

\* s.find(c), 1-based, 0 when c does not occur
Find(s, c) ==
    LET hits == {i \in 1..Len(s) : s[i] = c}
    IN  IF hits = {} THEN 0 ELSE CHOOSE i \in hits : \A j \in hits : i <= j

\* os.path.splitext(p)[1]: the extension starts at the last dot of the last
\* path component, unless that component has only dots before it
SplitExt(p) ==
    LET sepIndex == RFind(p, "/")
        dotIndex == RFind(p, ".")
    IN  IF /\ dotIndex > sepIndex
           /\ \E k \in (sepIndex + 1)..(dotIndex - 1) : p[k] # "."
        THEN SubSeq(p, dotIndex, Len(p))
        ELSE << >>

\* s.split('_')[0]
SplitUnderscore0(s) ==
    LET k == Find(s, "_")
    IN  IF k = 0 THEN s ELSE SubSeq(s, 1, k - 1)

\* (v.split('=', 1) + [''])[0:2]
SplitVariable(v) ==
    LET k == Find(v, "=")
    IN  IF k = 0 THEN << v, << >> >>
        ELSE << SubSeq(v, 1, k - 1), SubSeq(v, k + 1, Len(v)) >>

\* uuid5(namespace, name): a name-based hash, taken to be injective
Uuid5(namespace, name) == <<"v5">> \o namespace \o <<"|">> \o name

\* UUID.hex: 32 hexadecimal digits, no separator
Hex(u) == <<"hex">> \o u

\* str(UUID): the hyphenated form
UuidStr(u) == <<"uuid">> \o u

\* the values uuid4() can return
Uuid4Set == { <<"U1">>, <<"U2">> }

(***************************************************************************)
(* The source tree: a set of entries, each the list of names from the      *)
(* source root down to the entry, and whether it is a directory.           *)
(***************************************************************************)
RECURSIVE PathsUpTo(_)
PathsUpTo(d) ==
    IF d = 0 THEN { << >> }
    ELSE LET shorter == PathsUpTo(d - 1)
         IN  shorter \cup { Append(p, n) : p \in shorter, n \in NameSet }

Entries == [path : PathsUpTo(MaxDepth) \ { << >> }, isdir : BOOLEAN]

RECURSIVE SubsetsUpTo(_, _)
SubsetsUpTo(S, k) ==
    IF k = 0 THEN { {} }
    ELSE LET smaller == SubsetsUpTo(S, k - 1)
         IN  smaller \cup { T \cup {x} : T \in smaller, x \in S }

Parent(p) == SubSeq(p, 1, Len(p) - 1)

\* what a filesystem can hold: one entry per path, every entry inside a
\* directory of the tree
IsTree(t) ==
    /\ \A e1, e2 \in t : e1.path = e2.path => e1 = e2
    /\ \A e \in t : Len(e.path) > 1 =>
           \E d \in t : d.isdir /\ d.path = Parent(e.path)

Trees == { t \in SubsetsUpTo(Entries, MaxEntries) : IsTree(t) }

\* os.scandir(dir): the names of the entries directly inside rel
ScanDir(rel) == { e.path[Len(e.path)] : e \in { f \in tree : Parent(f.path) = rel } }

\* e.is_dir()
IsDir(rel) == \E e \in tree : e.path = rel /\ e.isdir

(***************************************************************************)
(* The command line.                                                       *)
(***************************************************************************)
ShortcutSet == { None, <<"A", "/", "B", ".", "X">>, <<"a">> }

\* --upgrade-code and --version: both given or both left out
Given == [upgrade_code |-> <<"U1">>, version |-> <<"1", ".", "2">>]
Omitted == [upgrade_code |-> None, version |-> None]

\* the options that only add elements to the document: a minimal command
\* line, and one with --icon, --x64, --with-ui and two -d
Plain == [icon |-> None, x64 |-> FALSE, with_ui |-> None, variable |-> << >>]
Full == [icon |-> <<"app", ".", "ico">>, x64 |-> TRUE, with_ui |-> <<"en-us">>,
         variable |-> << <<"k", "=", "v">>, <<"k">> >>]

ArgSet ==
    { [upgrade_code |-> g.upgrade_code, version |-> g.version,
       name |-> <<"My App">>, manufacturer |-> None, shortcut |-> s,
       codepage |-> <<"1252">>, language |-> <<"0">>, x64 |-> o.x64,
       with_ui |-> o.with_ui, variable |-> o.variable, icon |-> o.icon] :
      g \in {Given, Omitted}, s \in ShortcutSet, o \in {Plain, Full} }

(***************************************************************************)
(* Logging: the root logger emits WARNING and ERROR records.               *)
(***************************************************************************)
Warning(l, msg) == Append(l, [level |-> "WARNING", msg |-> msg])
Error(l, msg) == Append(l, [level |-> "ERROR", msg |-> msg])

(***************************************************************************)
(* The state after ap.parse_args().                                        *)
(***************************************************************************)
Init ==
    /\ argv \in ArgSet
    /\ tree \in Trees
    /\ args = argv
    /\ wix = << >>
    /\ shortcutel = 0
    /\ log = << >>
    /\ pc = "defaults"
    /\ stack = << >>
    /\ tmpdir = "none"
    /\ files = {}
    /\ ran = << >>
    /\ platform = "unknown"
    /\ runs = 1
    /\ prev = << >>

\* Defaults with one warning for each defaulted option, the generated value
\* not reported
DefaultsOneWarningEach ==
    /\ pc = "defaults"
    /\ \E u \in Uuid4Set :
         LET a1 == IF args.manufacturer = None
                   THEN [args EXCEPT !.manufacturer = args.name] ELSE args
             l1 == IF a1.upgrade_code = None
                   THEN Warning(log, "no UpgradeCode specified")
                   ELSE log
             a2 == IF a1.upgrade_code = None
                   THEN [a1 EXCEPT !.upgrade_code = u] ELSE a1
             l2 == IF a2.version = None
                   THEN Warning(l1, "no version specified")
                   ELSE l1
             a3 == IF a2.version = None
                   THEN [a2 EXCEPT !.version = <<"0", ".", "0", ".", "1">>]
                   ELSE a2
         IN  /\ args' = a3
             /\ log' = l2
    /\ pc' = "build"
    /\ UNCHANGED <<argv, tree, wix, shortcutel, stack, tmpdir, files, ran,
                   platform, runs, prev>>

\* lines 52-63: the defaults of manufacturer, upgrade code and version
Defaults ==
    /\ pc = "defaults"
    /\ \E u \in Uuid4Set :
         LET a1 == IF args.manufacturer = None
                   THEN [args EXCEPT !.manufacturer = args.name] ELSE args
             l1 == IF a1.upgrade_code = None
                   THEN Warning(Warning(log, "no UpgradeCode specified"),
                                "--upgrade-code=")
                   ELSE log
             a2 == IF a1.upgrade_code = None
                   THEN [a1 EXCEPT !.upgrade_code = u] ELSE a1
             l2 == IF a2.version = None
                   THEN Warning(Warning(l1, "no version specified"),
                                "--version=")
                   ELSE l1
             a3 == IF a2.version = None
                   THEN [a2 EXCEPT !.version = <<"0", ".", "0", ".", "1">>]
                   ELSE a2
         IN  /\ args' = a3
             /\ log' = l2
    /\ pc' = "build"
    /\ UNCHANGED <<argv, tree, wix, shortcutel, stack, tmpdir, files, ran,
                   platform, runs, prev>>

(***************************************************************************)
(* The document.                                                           *)
(***************************************************************************)
\* the positions in wix of the elements the script keeps in variables
product == 2
targetdir == 6
progfilesdir == 7
installdir == 8
feature == 9

\* ET.SubElement(parent, tag, **attrib), the attributes given as a record
SubElement(w, el) == Append(w, el)

\* installdirpath, line 77
InstallDirPath(w) == w[progfilesdir].Id \o <<"/">> \o w[installdir].Name

\* lines 90-95: the UI elements
UiElements(a) ==
    IF a.with_ui # None
    THEN << [tag |-> "Property", parent |-> product,
             Id |-> <<"WIXUI_INSTALLDIR">>, Value |-> <<"INSTALLDIR">>],
            [tag |-> "UIRef", parent |-> product, Id |-> <<"WixUI_InstallDir">>],
            [tag |-> "SetProperty", parent |-> product,
             Id |-> <<"ARPNOMODIFY">>, Value |-> <<"1">>] >>
    ELSE << [tag |-> "Property", parent |-> product,
             Id |-> <<"ARPNOMODIFY">>, Value |-> <<"yes">>] >>

\* lines 97-99: one WixVariable per -d option
WixVariables(a) ==
    [i \in 1..Len(a.variable) |->
        [tag |-> "WixVariable", parent |-> product,
         Id |-> SplitVariable(a.variable[i])[1],
         Value |-> SplitVariable(a.variable[i])[2]]]

\* lines 65-86: the fixed head of the document
Header(a) ==
    << [tag |-> "Wix", parent |-> 0],
       [tag |-> "Product", parent |-> 1, Name |-> a.name, Id |-> <<"*">>,
        UpgradeCode |-> UuidStr(a.upgrade_code), Codepage |-> a.codepage,
        Manufacturer |-> a.manufacturer, Version |-> a.version,
        Language |-> a.language],
       [tag |-> "Package", parent |-> product, Id |-> <<"*">>,
        Description |-> a.name, Manufacturer |-> a.manufacturer],
       [tag |-> "Media", parent |-> product, Id |-> <<"1">>],
       [tag |-> "MajorUpgrade", parent |-> product],
       [tag |-> "Directory", parent |-> product, Id |-> <<"TARGETDIR">>,
        Name |-> <<"SourceDir">>],
       [tag |-> "Directory", parent |-> targetdir,
        Id |-> IF a.x64 THEN <<"ProgramFiles64Folder">>
                        ELSE <<"ProgramFilesFolder">>,
        Name |-> <<"ProgramFiles">>],
       [tag |-> "Directory", parent |-> progfilesdir, Id |-> <<"INSTALLDIR">>,
        Name |-> a.name],
       [tag |-> "Feature", parent |-> product, Id |-> <<"Complete">>],
       [tag |-> "Property", parent |-> product, Id |-> <<"REINSTALLMODE">>,
        Value |-> <<"amus">>] >>

\* lines 65-99
BuildDocument ==
    /\ pc = "build"
    /\ wix' = Header(args) \o UiElements(args) \o WixVariables(args)
    /\ shortcutel' = 0
    /\ pc' = "tmpdir"
    /\ UNCHANGED <<argv, tree, args, log, stack, tmpdir, files, ran,
                   platform, runs, prev>>

(***************************************************************************)
(* with tempfile.TemporaryDirectory() as tmpdir: an exception inside the   *)
(* block (pc = "raise") and the end of the block (pc = "exit") both leave  *)
(* through the context manager.                                            *)
(***************************************************************************)
\* line 127: TemporaryDirectory.__enter__
EnterTmpdir ==
    /\ pc = "tmpdir"
    /\ tmpdir' = "exists"
    /\ pc' = "acquire"
    /\ UNCHANGED <<argv, tree, args, wix, shortcutel, log, stack, files, ran,
                   platform, runs, prev>>

\* the frame of one call of walkdir(direl, sourcepath, dirpath); rel is the
\* directory sourcepath names, todo what os.scandir has not yet yielded
Frame(direl, sourcepath, rel, dirpath) ==
    [direl |-> direl, sourcepath |-> sourcepath, rel |-> rel,
     dirpath |-> dirpath, todo |-> ScanDir(rel)]

\* lines 123-124: addfiles(sourcedir)
AddFiles(sourcedir) == << Frame(installdir, sourcedir, << >>, InstallDirPath(wix)) >>

\* lines 128-129: the source is a directory
AcquireDirectory ==
    /\ pc = "acquire"
    /\ stack' = AddFiles(<<"sourcedirectory">>)
    /\ pc' = "walk"
    /\ UNCHANGED <<argv, tree, args, wix, shortcutel, log, tmpdir, files, ran,
                   platform, runs, prev>>

\* lines 130-134: the source is an archive, extracted to tmpdir/src
AcquireArchive ==
    /\ pc = "acquire"
    /\ \/ /\ files' = files \cup {"tmp/src"}
          /\ stack' = AddFiles(<<"tmp", "/", "src">>)
          /\ pc' = "walk"
       \/ /\ pc' = "raise"
          /\ UNCHANGED <<files, stack>>
    /\ UNCHANGED <<argv, tree, args, wix, shortcutel, log, tmpdir, ran,
                   platform, runs, prev>>

(***************************************************************************)
(* walkdir, lines 103-121: one step per entry os.scandir yields, in any    *)
(* order.                                                                  *)
(***************************************************************************)
Top == stack[Len(stack)]

\* the elements of document w with the given tag
Elems(w, tag) == { i \in 1..Len(w) : w[i].tag = tag }

\* the Directory elements walkdir made (line 108)
WalkDirs(w) == { i \in Elems(w, "Directory") : i > feature /\ w[i].parent # targetdir }

\* the names from the source root down to the directory of element i
RECURSIVE DirPath(_, _)
DirPath(w, i) ==
    IF i = installdir THEN << >> ELSE Append(DirPath(w, w[i].parent), w[i].Name)

\* the names from the source root down to the file of File element i
FilePath(w, i) == Append(DirPath(w, w[w[i].parent].parent), w[i].Name)

\* the number of elements made before the walk (lines 65-99)
HeadLen == Len(Header(args)) + Len(UiElements(args)) + Len(WixVariables(args))

\* what one walk gave each directory and file of the tree: its identifiers,
\* and the entry the walk met first
Walked(w) ==
    [ids |-> { [kind |-> "Directory", path |-> DirPath(w, i), Id |-> w[i].Id,
                Guid |-> None] : i \in WalkDirs(w) }
          \cup { [kind |-> "Component", path |-> FilePath(w, i),
                  Id |-> w[w[i].parent].Id, Guid |-> w[w[i].parent].Guid] :
                  i \in Elems(w, "File") }
          \cup { [kind |-> "File", path |-> FilePath(w, i), Id |-> w[i].Id,
                  Guid |-> None] : i \in Elems(w, "File") },
     first |-> IF Len(w) = HeadLen THEN << >>
               ELSE IF w[HeadLen + 1].tag = "Directory"
                    THEN DirPath(w, HeadLen + 1)
                    ELSE FilePath(w, HeadLen + 2)]

\* IsShortcutTarget with the target compared as written, not upper-cased
IsShortcutTargetAsWritten(idpath) ==
    /\ args.shortcut # None
    /\ InstallDirPath(wix) \o <<"/">> \o args.shortcut = idpath

\* line 115
IsShortcutTarget(idpath) ==
    /\ args.shortcut # None
    /\ InstallDirPath(wix) \o <<"/">> \o Upper(args.shortcut) = idpath

\* WalkDirectory leaving out the directories that have no entries
WalkDirectorySkipEmpty(name) ==
    LET idpath == Top.dirpath \o <<"/">> \o Upper(name)
        iduuid == Uuid5(args.upgrade_code, idpath)
        epath  == Top.sourcepath \o <<"/">> \o name
        d      == [tag |-> "Directory", parent |-> Top.direl, Name |-> name,
                   Id |-> <<"Dir", "_">> \o Hex(iduuid)]
    IN  IF ScanDir(Append(Top.rel, name)) = {}
        THEN /\ stack' = [stack EXCEPT ![Len(stack)].todo = @ \ {name}]
             /\ UNCHANGED <<wix, shortcutel>>
        ELSE /\ wix' = SubElement(wix, d)
             /\ stack' = Append([stack EXCEPT ![Len(stack)].todo = @ \ {name}],
                                Frame(Len(wix) + 1, epath, Append(Top.rel, name), idpath))
             /\ UNCHANGED shortcutel

\* lines 107-109: the entry is a directory
WalkDirectory(name) ==
    LET idpath == Top.dirpath \o <<"/">> \o Upper(name)
        iduuid == Uuid5(args.upgrade_code, idpath)
        epath  == Top.sourcepath \o <<"/">> \o name
        d      == [tag |-> "Directory", parent |-> Top.direl, Name |-> name,
                   Id |-> <<"Dir", "_">> \o Hex(iduuid)]
    IN  /\ wix' = SubElement(wix, d)
        /\ stack' = Append([stack EXCEPT ![Len(stack)].todo = @ \ {name}],
                           Frame(Len(wix) + 1, epath, Append(Top.rel, name), idpath))
        /\ UNCHANGED shortcutel

\* WalkFile with the identifiers taken from the position of the component
\* in the document, not from the path of the file
WalkFileByPosition(name) ==
    LET idpath == Top.dirpath \o <<"/">> \o Upper(name)
        iduuid == Uuid5(args.upgrade_code, <<ToString(Len(wix))>>)
        epath  == Top.sourcepath \o <<"/">> \o name
        comp   == [tag |-> "Component", parent |-> Top.direl,
                   Id |-> <<"Comp", "_">> \o Hex(iduuid), Guid |-> UuidStr(iduuid)]
        f      == [tag |-> "File", parent |-> Len(wix) + 1, Name |-> name,
                   Source |-> epath, Id |-> <<"File", "_">> \o Hex(iduuid)]
        ref    == [tag |-> "ComponentRef", parent |-> feature,
                   Id |-> <<"Comp", "_">> \o Hex(iduuid)]
        sc     == [tag |-> "Shortcut", parent |-> Len(wix) + 2,
                   Id |-> <<"Shortcut", "_">> \o Hex(iduuid),
                   Directory |-> <<"ProgramMenuFolder">>, Name |-> args.name,
                   Icon |-> None]
        menu   == [tag |-> "Directory", parent |-> targetdir,
                   Id |-> <<"ProgramMenuFolder">>, Name |-> <<"All Programs">>]
        w3     == SubElement(SubElement(SubElement(wix, comp), f), ref)
    IN  /\ IF IsShortcutTarget(idpath)
           THEN /\ wix' = SubElement(SubElement(w3, sc), menu)
                /\ shortcutel' = Len(wix) + 4
           ELSE /\ wix' = w3
                /\ UNCHANGED shortcutel
        /\ stack' = [stack EXCEPT ![Len(stack)].todo = @ \ {name}]

\* lines 110-121: the entry is a file
WalkFile(name) ==
    LET idpath == Top.dirpath \o <<"/">> \o Upper(name)
        iduuid == Uuid5(args.upgrade_code, idpath)
        epath  == Top.sourcepath \o <<"/">> \o name
        comp   == [tag |-> "Component", parent |-> Top.direl,
                   Id |-> <<"Comp", "_">> \o Hex(iduuid), Guid |-> UuidStr(iduuid)]
        f      == [tag |-> "File", parent |-> Len(wix) + 1, Name |-> name,
                   Source |-> epath, Id |-> <<"File", "_">> \o Hex(iduuid)]
        ref    == [tag |-> "ComponentRef", parent |-> feature,
                   Id |-> <<"Comp", "_">> \o Hex(iduuid)]
        sc     == [tag |-> "Shortcut", parent |-> Len(wix) + 2,
                   Id |-> <<"Shortcut", "_">> \o Hex(iduuid),
                   Directory |-> <<"ProgramMenuFolder">>, Name |-> args.name,
                   Icon |-> None]
        menu   == [tag |-> "Directory", parent |-> targetdir,
                   Id |-> <<"ProgramMenuFolder">>, Name |-> <<"All Programs">>]
        w3     == SubElement(SubElement(SubElement(wix, comp), f), ref)
    IN  /\ IF IsShortcutTarget(idpath)
           THEN /\ wix' = SubElement(SubElement(w3, sc), menu)
                /\ shortcutel' = Len(wix) + 4
           ELSE /\ wix' = w3
                /\ UNCHANGED shortcutel
        /\ stack' = [stack EXCEPT ![Len(stack)].todo = @ \ {name}]

\* one iteration of the loop of line 104
WalkEntry ==
    /\ pc = "walk"
    /\ stack # << >>
    /\ \E name \in Top.todo :
         IF IsDir(Append(Top.rel, name))
         THEN WalkDirectory(name)
         ELSE WalkFile(name)
    /\ UNCHANGED <<argv, tree, args, log, pc, tmpdir, files, ran, platform,
                   runs, prev>>

\* the loop of line 104 ends: walkdir returns, and addfiles with the last one
WalkReturn ==
    /\ pc = "walk"
    /\ stack # << >>
    /\ Top.todo = {}
    /\ stack' = SubSeq(stack, 1, Len(stack) - 1)
    /\ pc' = IF Len(stack) = 1 THEN "shortcut" ELSE "walk"
    /\ prev' = IF Len(stack) = 1 THEN Append(prev, Walked(wix)) ELSE prev
    /\ UNCHANGED <<argv, tree, args, wix, shortcutel, log, tmpdir, files, ran,
                   platform, runs>>

(***************************************************************************)
(* After the walk.                                                         *)
(***************************************************************************)
\* lines 136-137
CheckShortcut ==
    /\ pc = "shortcut"
    /\ log' = IF args.shortcut # None /\ shortcutel = 0
              THEN Error(log, "couldn't create shortcut: file not found")
              ELSE log
    /\ pc' = "icon"
    /\ UNCHANGED <<argv, tree, args, wix, shortcutel, stack, tmpdir, files,
                   ran, platform, runs, prev>>

\* lines 149-156: the identifier of the icon
IconId ==
    IF shortcutel # 0
    THEN <<"Icon", "_">> \o SplitUnderscore0(wix[shortcutel].Id)
                         \o Upper(SplitExt(args.shortcut))
    ELSE <<"app", ".", "ico">>

\* lines 139-159 with --icon: ico2dll writes the DLL or raises
AddIcon ==
    /\ pc = "icon"
    /\ args.icon # None
    /\ \/ /\ files' = files \cup {"tmp/appico.dll"}
          /\ LET w1 == IF shortcutel # 0
                       THEN [wix EXCEPT ![shortcutel].Icon = IconId]
                       ELSE wix
                 w2 == SubElement(w1, [tag |-> "Icon", parent |-> product,
                                       Id |-> IconId,
                                       SourceFile |-> <<"tmp", "/", "appico.dll">>])
             IN  wix' = SubElement(w2, [tag |-> "Property", parent |-> product,
                                        Id |-> <<"ARPPRODUCTICON">>,
                                        Value |-> IconId])
          /\ pc' = "write"
       \/ /\ pc' = "raise"
          /\ UNCHANGED <<files, wix>>
    /\ UNCHANGED <<argv, tree, args, shortcutel, log, stack, tmpdir, ran,
                   platform, runs, prev>>

\* line 139 without --icon
NoIcon ==
    /\ pc = "icon"
    /\ args.icon = None
    /\ pc' = "write"
    /\ UNCHANGED <<argv, tree, args, wix, shortcutel, log, stack, tmpdir,
                   files, ran, platform, runs, prev>>

\* lines 162-164: the working copy of the document
WriteWxs ==
    /\ pc = "write"
    /\ files' = files \cup {"tmp/app.wxs"}
    /\ pc' = "copywxs"
    /\ UNCHANGED <<argv, tree, args, wix, shortcutel, log, stack, tmpdir, ran,
                   platform, runs, prev>>

\* lines 166-167: the copy --output-wxs asks for, if any; copyfile may raise
CopyWxs ==
    /\ pc = "copywxs"
    /\ \/ /\ files' = files \cup {"output_wxs"}
          /\ pc' = "toolchain"
       \/ /\ pc' = "toolchain"
          /\ UNCHANGED files
       \/ /\ pc' = "raise"
          /\ UNCHANGED files
    /\ UNCHANGED <<argv, tree, args, wix, shortcutel, log, stack, tmpdir, ran,
                   platform, runs, prev>>

(***************************************************************************)
(* The toolchain, lines 169-195.  subprocess.run(..., check=True) raises   *)
(* CalledProcessError when the process exits with a non-zero code.         *)
(***************************************************************************)
ExitCodes == {0, 1}

Run(proc, rc) == Append(ran, [proc |-> proc, rc |-> rc])

\* lines 169-180: os.name is 'nt'
Candle ==
    /\ pc = "toolchain"
    /\ platform' = "nt"
    /\ \E rc \in ExitCodes :
         /\ ran' = Run("candle", rc)
         /\ IF rc = 0
            THEN files' = files \cup {"tmp/app.wixobj"} /\ pc' = "light"
            ELSE pc' = "raise" /\ UNCHANGED files
    /\ UNCHANGED <<argv, tree, args, wix, shortcutel, log, stack, tmpdir,
                   runs, prev>>

\* lines 182-187
Light ==
    /\ pc = "light"
    /\ \E rc \in ExitCodes :
         /\ ran' = Run("light", rc)
         /\ IF rc = 0
            THEN files' = files \cup {"tmp/app.msi"} /\ pc' = "smoke"
            ELSE pc' = "raise" /\ UNCHANGED files
    /\ UNCHANGED <<argv, tree, args, wix, shortcutel, log, stack, tmpdir,
                   platform, runs, prev>>

\* Smoke without the try/except: a failed validation raises
SmokeUncaught ==
    /\ pc = "smoke"
    /\ \E rc \in ExitCodes :
         /\ ran' = Run("smoke", rc)
         /\ pc' = IF rc = 0 THEN "copymsi" ELSE "raise"
    /\ UNCHANGED <<argv, tree, args, wix, shortcutel, log, stack, tmpdir,
                   files, platform, runs, prev>>

\* lines 189-193
Smoke ==
    /\ pc = "smoke"
    /\ \E rc \in ExitCodes :
         /\ ran' = Run("smoke", rc)
         /\ log' = IF rc = 0 THEN log
                   ELSE Warning(Warning(log, "MSI validation failed"),
                                "CalledProcessError")
    /\ pc' = "copymsi"
    /\ UNCHANGED <<argv, tree, args, wix, shortcutel, stack, tmpdir, files,
                   platform, runs, prev>>

\* lines 169 and 194-195: os.name is not 'nt'
Wixl ==
    /\ pc = "toolchain"
    /\ platform' = "posix"
    /\ \E rc \in ExitCodes :
         /\ ran' = Run("wixl", rc)
         /\ IF rc = 0
            THEN files' = files \cup {"tmp/app.msi"} /\ pc' = "copymsi"
            ELSE pc' = "raise" /\ UNCHANGED files
    /\ UNCHANGED <<argv, tree, args, wix, shortcutel, log, stack, tmpdir,
                   runs, prev>>

\* line 197
CopyMsi ==
    /\ pc = "copymsi"
    /\ files' = files \cup {"output_msi"}
    /\ pc' = "exit"
    /\ UNCHANGED <<argv, tree, args, wix, shortcutel, log, stack, tmpdir, ran,
                   platform, runs, prev>>

\* the files inside the temporary directory
TmpFiles == {"tmp/src", "tmp/appico.dll", "tmp/app.wxs", "tmp/app.wixobj",
             "tmp/app.msi"}

\* Cleanup that removes the directory at the end of the block only, not when
\* an exception leaves it
CleanupAtEndOnly ==
    /\ pc \in {"exit", "raise"}
    /\ IF pc = "exit"
       THEN tmpdir' = "removed" /\ files' = files \ TmpFiles
       ELSE UNCHANGED <<tmpdir, files>>
    /\ pc' = IF pc = "exit" THEN "done" ELSE "aborted"
    /\ UNCHANGED <<argv, tree, args, wix, shortcutel, log, stack, ran,
                   platform, runs, prev>>

\* line 127: TemporaryDirectory.__exit__, at the end of the block or with an
\* exception on its way out of it
Cleanup ==
    /\ pc \in {"exit", "raise"}
    /\ tmpdir' = "removed"
    /\ files' = files \ TmpFiles
    /\ pc' = IF pc = "exit" THEN "done" ELSE "aborted"
    /\ UNCHANGED <<argv, tree, args, wix, shortcutel, log, stack, ran,
                   platform, runs, prev>>

\* the script is run again, on the same command line and the same tree;
\* files and log are those of the new run
Rerun ==
    /\ pc \in {"done", "aborted"}
    /\ runs = 1
    /\ runs' = runs + 1
    /\ args' = argv
    /\ wix' = << >>
    /\ shortcutel' = 0
    /\ log' = << >>
    /\ pc' = "defaults"
    /\ stack' = << >>
    /\ tmpdir' = "none"
    /\ files' = {}
    /\ ran' = << >>
    /\ platform' = "unknown"
    /\ UNCHANGED <<argv, tree, prev>>

\* one run of the script
Next ==
    \/ Defaults
    \/ BuildDocument
    \/ EnterTmpdir
    \/ AcquireDirectory
    \/ AcquireArchive
    \/ WalkEntry
    \/ WalkReturn
    \/ CheckShortcut
    \/ AddIcon
    \/ NoIcon
    \/ WriteWxs
    \/ CopyWxs
    \/ Candle
    \/ Light
    \/ Smoke
    \/ Wixl
    \/ CopyMsi
    \/ Cleanup

Spec == Init /\ [][Next]_vars

\* two runs of the script on the same command line and tree
NextTwice ==
    \/ Defaults
    \/ BuildDocument
    \/ EnterTmpdir
    \/ AcquireDirectory
    \/ AcquireArchive
    \/ WalkEntry
    \/ WalkReturn
    \/ CheckShortcut
    \/ AddIcon
    \/ NoIcon
    \/ WriteWxs
    \/ CopyWxs
    \/ Candle
    \/ Light
    \/ Smoke
    \/ Wixl
    \/ CopyMsi
    \/ Cleanup
    \/ Rerun

SpecTwice == Init /\ [][NextTwice]_vars

(***************************************************************************)
(* What the properties speak of.                                           *)
(***************************************************************************)
\* the walk of the current run has returned
WalkDone == Len(prev) = runs

\* the document is complete: the script is at or past line 162
DocumentDone == pc \in {"write", "copywxs", "toolchain", "light", "smoke",
                        "copymsi", "exit", "done"}

FilesOfTree == { e \in tree : ~e.isdir }

Components == Elems(wix, "Component")

ComponentRefs == { i \in Elems(wix, "ComponentRef") : wix[i].parent = feature }

Shortcuts == Elems(wix, "Shortcut")

MenuFolders == { i \in Elems(wix, "Directory") : wix[i].Id = <<"ProgramMenuFolder">> }

\* a path of the tree as the user writes it: the names joined by '/'
RECURSIVE JoinPath(_)
JoinPath(p) ==
    IF Len(p) = 1 THEN p[1]
    ELSE JoinPath(Parent(p)) \o <<"/">> \o p[Len(p)]

\* the files of the tree whose relative path is the shortcut target, case
\* ignored
Targets ==
    { e \in FilesOfTree :
        args.shortcut # None /\ Upper(JoinPath(e.path)) = Upper(args.shortcut) }

\* the File entry of the file at path carries a Shortcut
CarriesShortcut(path) ==
    \E f \in Elems(wix, "File") :
        /\ FilePath(wix, f) = path
        /\ \E sc \in Shortcuts : wix[sc].parent = f

EndsWith(str, suffix) ==
    /\ Len(suffix) <= Len(str)
    /\ SubSeq(str, Len(str) - Len(suffix) + 1, Len(str)) = suffix

ShortcutErrors ==
    { i \in 1..Len(log) : log[i].level = "ERROR"
                          /\ log[i].msg = "couldn't create shortcut: file not found" }

(***************************************************************************)
(* C1: for every source tree with N files the document holds exactly N     *)
(* Component entries, and the identifier of each is referenced by exactly  *)
(* one ComponentRef of the single Feature 'Complete'; no ComponentRef      *)
(* names a component that does not exist.                                  *)
(***************************************************************************)
C1_RoundTrip ==
    WalkDone =>
        /\ Cardinality(Components) = Cardinality(FilesOfTree)
        /\ Cardinality(Elems(wix, "Feature")) = 1
        /\ wix[feature].Id = <<"Complete">>
        /\ \A c \in Components :
               Cardinality({ r \in ComponentRefs : wix[r].Id = wix[c].Id }) = 1
        /\ \A r \in ComponentRefs : \E c \in Components : wix[c].Id = wix[r].Id

(***************************************************************************)
(* C2: in one run the walk attaches a Shortcut to at most one File entry:  *)
(* the document holds at most one Shortcut element and at most one         *)
(* ProgramMenuFolder directory entry.                                      *)
(***************************************************************************)
C2_AtMostOneShortcut ==
    /\ Cardinality(Shortcuts) <= 1
    /\ Cardinality(MenuFolders) <= 1

\* what the walk leaves behind, for the target found and not found
C3_State ==
    WalkDone =>
        /\ \A e \in Targets : CarriesShortcut(e.path)
        /\ (args.shortcut # None /\ Targets = {}) =>
               /\ Shortcuts = {}
               /\ MenuFolders = {}
               /\ shortcutel = 0
               /\ pc # "shortcut" => Cardinality(ShortcutErrors) = 1
        /\ (args.shortcut = None \/ Targets # {}) => ShortcutErrors = {}

\* the check of line 136 is not fatal
C3_Step == pc = "shortcut" => pc' = "icon" /\ wix' = wix /\ tmpdir' = tmpdir

(***************************************************************************)
(* C3: shortcut matching is case-insensitive and relative to the source    *)
(* root.  Once the walk has returned, every file whose relative path       *)
(* equals the shortcut target, case ignored, carries a Shortcut; if a      *)
(* target is configured and no file matches, the document has no Shortcut  *)
(* and no ProgramMenuFolder entry, the diagnostic is recorded once the     *)
(* check of line 136 has run, and that check always hands over to the next *)
(* stage of the run.                                                       *)
(***************************************************************************)
C3_ShortcutMatching == []C3_State /\ [][C3_Step]_vars

\* bin/app.exe against BIN/APP.EXE: the file a/b.x of the tree, the target A/B.X
C3_Witness_Match ==
    /\ pc = "icon"
    /\ args.shortcut = <<"A", "/", "B", ".", "X">>
    /\ [path |-> << <<"a">>, <<"b", ".", "x">> >>, isdir |-> FALSE] \in tree
    /\ CarriesShortcut(<< <<"a">>, <<"b", ".", "x">> >>)

IdsOf(tag) == { wix[i].Id : i \in Elems(wix, tag) }

(***************************************************************************)
(* C4: identifiers are collision-free: no two Directory entries, no two    *)
(* Component entries and no two File entries of the document share an      *)
(* identifier, and no identifier is used in two of the three roles.        *)
(***************************************************************************)
C4_NoCollision ==
    /\ \A tag \in {"Directory", "Component", "File"} :
           \A i, j \in Elems(wix, tag) : wix[i].Id = wix[j].Id => i = j
    /\ IdsOf("Directory") \cap IdsOf("Component") = {}
    /\ IdsOf("Directory") \cap IdsOf("File") = {}
    /\ IdsOf("Component") \cap IdsOf("File") = {}

Icons == Elems(wix, "Icon")

ProductIcons == { i \in Elems(wix, "Property") : wix[i].Id = <<"ARPPRODUCTICON">> }

(***************************************************************************)
(* C5: with --icon the complete document has exactly one Icon entry and    *)
(* one ARPPRODUCTICON property with the same identifier; if a shortcut was *)
(* attached the identifier ends with the upper-cased extension of the      *)
(* shortcut target and the Icon attribute of the Shortcut equals it,       *)
(* otherwise the identifier is 'app.ico'.  Without --icon the document has *)
(* neither entry.                                                          *)
(***************************************************************************)
C5_Icon ==
    DocumentDone =>
        IF args.icon = None
        THEN Icons = {} /\ ProductIcons = {}
        ELSE /\ Cardinality(Icons) = 1
             /\ Cardinality(ProductIcons) = 1
             /\ \A i \in Icons, q \in ProductIcons :
                    /\ wix[q].Value = wix[i].Id
                    /\ IF Shortcuts # {}
                       THEN /\ EndsWith(wix[i].Id, Upper(SplitExt(args.shortcut)))
                            /\ \A sc \in Shortcuts : wix[sc].Icon = wix[i].Id
                       ELSE wix[i].Id = <<"app", ".", "ico">>

(***************************************************************************)
(* C6: the temporary directory exists before any file is written; it is    *)
(* removed when the run has ended, normally or with an exception; once it  *)
(* is removed no stage runs; and a run that ends normally has run the      *)
(* toolchain and copied the binary to the output path before the removal.  *)
(***************************************************************************)
C6_TmpdirScope ==
    /\ files # {} => tmpdir # "none"
    /\ files \cap TmpFiles # {} => tmpdir = "exists"
    /\ pc \in {"done", "aborted"} => tmpdir = "removed"
    /\ tmpdir = "removed" => pc \in {"done", "aborted"}
    /\ pc \in {"exit", "done"} => "output_msi" \in files /\ ran # << >>

\* the exit path of a failed link: the directory is gone, no binary is left
C6_Witness_LinkFailed ==
    /\ pc = "aborted"
    /\ tmpdir = "removed"
    /\ Len(ran) = 2
    /\ ran[2].rc # 0
    /\ "output_wxs" \in files

Procs == [i \in 1..Len(ran) |-> ran[i].proc]

Ended == pc \in {"done", "aborted"}

ValidationWarnings ==
    { i \in 1..Len(log) : log[i].level = "WARNING" /\ log[i].msg = "MSI validation failed" }

OneEmptyDirectory == Cardinality(tree) = 1 /\ \A e \in tree : e.isdir

(***************************************************************************)
(* C8, as the specification states it: a tree of exactly one empty         *)
(* subdirectory and no files gives a document with exactly one directory   *)
(* entry and no component entry.                                           *)
(***************************************************************************)
C8_OneDirectoryEntry ==
    (OneEmptyDirectory /\ WalkDone) =>
        /\ Cardinality(Elems(wix, "Directory")) = 1
        /\ Components = {}
        /\ ComponentRefs = {}

(***************************************************************************)
(* C8, amended: such a tree gives exactly one directory entry for the      *)
(* subdirectory, a child of INSTALLDIR carrying its name, next to the      *)
(* three fixed entries TARGETDIR, ProgramFiles[64]Folder and INSTALLDIR    *)
(* (four Directory entries in all), no Component, no ComponentRef in the   *)
(* Feature, and the document still has its one Wix root, Product, Package, *)
(* Media and Feature.                                                      *)
(***************************************************************************)
C8_OneWalkedDirectory ==
    (OneEmptyDirectory /\ WalkDone) =>
        /\ Cardinality(WalkDirs(wix)) = 1
        /\ \A d \in WalkDirs(wix) :
               /\ wix[d].parent = installdir
               /\ \E e \in tree : e.path = << wix[d].Name >>
        /\ Cardinality(Elems(wix, "Directory")) = 4
        /\ { wix[i].Id : i \in Elems(wix, "Directory") \ WalkDirs(wix) } \in
               { { <<"TARGETDIR">>, <<"ProgramFilesFolder">>, <<"INSTALLDIR">> },
                 { <<"TARGETDIR">>, <<"ProgramFiles64Folder">>, <<"INSTALLDIR">> } }
        /\ Components = {}
        /\ Elems(wix, "File") = {}
        /\ Elems(wix, "ComponentRef") = {}
        /\ wix[1].tag = "Wix"
        /\ \A tag \in {"Wix", "Product", "Package", "Media", "Feature"} :
               Cardinality(Elems(wix, tag)) = 1

C8_Witness_EmptyDirectory ==
    /\ OneEmptyDirectory
    /\ pc = "done"
    /\ Cardinality(WalkDirs(wix)) = 1

DefaultWarnings ==
    { i \in 1..Len(log) :
        /\ log[i].level = "WARNING"
        /\ log[i].msg \in {"no UpgradeCode specified", "--upgrade-code=",
                          "no version specified", "--version="} }

Digits == {"0", "1", "2", "3", "4", "5", "6", "7", "8", "9"}

\* a version string: numbers separated by single dots
IsVersion(v) ==
    /\ v # << >>
    /\ \A i \in 1..Len(v) : v[i] \in Digits \cup {"."}
    /\ v[1] # "." /\ v[Len(v)] # "."
    /\ \A i \in 1..(Len(v) - 1) : ~(v[i] = "." /\ v[i + 1] = ".")

\* the text of a UUID, as str(UUID) writes it
IsUuidText(t) ==
    /\ Len(t) = 2
    /\ t[1] = "uuid"
    /\ <<t[2]>> \in Uuid4Set \cup {Given.upgrade_code}

DefaultsApplied(n) ==
    /\ Cardinality(DefaultWarnings) = n
    /\ Len(log) >= n
    /\ pc \in {"raise", "aborted"} => tmpdir # "none"
    /\ IsVersion(args.version)
    /\ wix # << >> =>
           /\ IsVersion(wix[product].Version)
           /\ IsUuidText(wix[product].UpgradeCode)

(***************************************************************************)
(* C9, as the specification states it: with --version and --upgrade-code   *)
(* both left out the run goes on with a valid version and a valid UUID,    *)
(* and exactly two warnings are emitted, one per defaulted option; with    *)
(* both given no such warning is emitted.                                  *)
(***************************************************************************)
C9_TwoWarnings ==
    pc # "defaults" =>
        /\ (argv.version = None /\ argv.upgrade_code = None) => DefaultsApplied(2)
        /\ (argv.version # None /\ argv.upgrade_code # None) => DefaultWarnings = {}

(***************************************************************************)
(* C9, amended: with both options left out the run goes on with a valid    *)
(* version and a valid UUID, and exactly four warning records are emitted, *)
(* two per defaulted option (the notice and the generated value); with     *)
(* both given no such warning is emitted.                                  *)
(***************************************************************************)
C9_FourWarnings ==
    pc # "defaults" =>
        /\ (argv.version = None /\ argv.upgrade_code = None) => DefaultsApplied(4)
        /\ (argv.version # None /\ argv.upgrade_code # None) => DefaultWarnings = {}

C9_Witness_Defaulted ==
    /\ argv.version = None
    /\ argv.upgrade_code = None
    /\ pc = "done"
    /\ wix[product].Version = <<"0", ".", "0", ".", "1">>
    /\ Cardinality(DefaultWarnings) = 4

(***************************************************************************)
(* C10: with the upgrade code given, two runs on the same command line and *)
(* the same tree give every directory and every file the same Dir_, Comp_  *)
(* and File_ identifiers and the same component Guid, whatever the order   *)
(* in which each run met the entries.                                      *)
(***************************************************************************)
C10_SameIdentifiers ==
    argv.upgrade_code # None =>
        \A i, j \in 1..Len(prev) : prev[i].ids = prev[j].ids

\* two runs that met the entries of the tree in different orders
C10_Witness_TwoOrders ==
    /\ argv.upgrade_code # None
    /\ Len(prev) = 2
    /\ prev[1].first # prev[2].first
    /\ Cardinality(prev[2].ids) >= 4
====
